---- MODULE Spec2Model ----
(***************************************************************************)
(* Model of lru_cache_using_std (src/src/core/lru_std.hpp): a fixed-size   *)
(* LRU-replacement cache of a function V f(K), made of a key access        *)
(* history (std::list, most recent at back) and a key-to-value map whose   *)
(* entries hold the value and an iterator to the key's list node.          *)
(***************************************************************************)
EXTENDS Integers, Sequences, FiniteSets, TLC

\* ---------------------------------------------------------------- bounds
MaxKey == 4     \* keys are 1..MaxKey
MaxCap == 3     \* capacities passed to the constructor are 0..MaxCap
MaxOps == 4     \* operator[] calls that return; no call is explored after

Keys == 1..MaxKey
NoKey == 0      \* "no key" in the call record; also the end() iterator
NoValue == -1   \* "no value returned" in the call record
End == NoKey    \* _key_to_value.end()

\* The cached functions the constructor is given: V f(const K&).
square == [k \in Keys |-> k * k]
parity == [k \in Keys |-> k % 2]
Fns == {square, parity}

VARIABLES
    ndebug,         \* build: TRUE when NDEBUG is defined (assert compiled out)
    status,         \* "unconstructed", "live", "aborted"
    _fn,            \* the function to be cached
    _capacity,      \* maximum number of key-value pairs to be retained
    _key_tracker,   \* key access history: sequence of list nodes [node, key]
    _key_to_value,  \* key -> [first |-> value, second |-> list node]
    requested,      \* history: keys of the operator[] calls that returned
    evictions,      \* history: keys purged by evict(), in order
    lastCall,       \* what the last call did and returned
    callers         \* concurrent callers: where each is in operator[]

vars == <<ndebug, status, _fn, _capacity, _key_tracker, _key_to_value,
          requested, evictions, lastCall, callers>>

\* ------------------------------------------------------- container helpers
KeysOf(kt) == {kt[i].key : i \in 1..Len(kt)}
NodesOf(kt) == {kt[i].node : i \in 1..Len(kt)}
KeySeq(kt) == [i \in 1..Len(kt) |-> kt[i].key]
Last(s) == s[Len(s)]
SeqToSet(s) == {s[i] : i \in 1..Len(s)}
NoDup(s) == \A i, j \in 1..Len(s) : s[i] = s[j] => i = j

\* A list node not in use: the allocation of std::list::insert.  Node
\* identities are interchangeable, so the lowest free one is taken.
NewNode(kt) == CHOOSE n \in 1..(Len(kt) + 1) :
                  /\ n \notin NodesOf(kt)
                  /\ \A m \in 1..(n - 1) : m \in NodesOf(kt)

\* _key_to_value.find(k): the entry's key, or end().
findNever(ktv, k) == End
find(ktv, k) == IF k \in DOMAIN ktv THEN k ELSE End

size(ktv) == Cardinality(DOMAIN ktv)
empty(ktv) == DOMAIN ktv = {}
full(ktv, cap) == size(ktv) = cap
capacity == _capacity

\* front(): the map entry of the least recently used key, or end().
frontBack(kt, ktv) == IF kt = <<>> THEN End ELSE find(ktv, kt[Len(kt)].key)
front(kt, ktv) == IF kt = <<>> THEN End ELSE find(ktv, kt[1].key)

\* _key_tracker.splice(end(), _key_tracker, h): move node h to the back.
spliceNoMove(kt, h) == kt
spliceToFront(kt, h) ==
    SelectSeq(kt, LAMBDA n : n.node = h) \o SelectSeq(kt, LAMBDA n : n.node # h)
splice(kt, h) ==
    SelectSeq(kt, LAMBDA n : n.node # h) \o SelectSeq(kt, LAMBDA n : n.node = h)

\* evict(): erase the map entry of the front key, pop the front node.
\* Called with a non-empty list (the caller handles the empty case).
evictBack(kt, ktv) ==
    [kt  |-> SubSeq(kt, 1, Len(kt) - 1),
     ktv |-> [x \in DOMAIN ktv \ {find(ktv, Last(kt).key)} |-> ktv[x]],
     key |-> Last(kt).key]
evictAll(kt, ktv) ==
    [kt |-> <<>>, ktv |-> [x \in {} |-> x], key |-> kt[1].key]
evictMapOnly(kt, ktv) ==
    [kt  |-> kt,
     ktv |-> [x \in DOMAIN ktv \ {find(ktv, kt[1].key)} |-> ktv[x]],
     key |-> kt[1].key]
evictListOnly(kt, ktv) ==
    [kt |-> Tail(kt), ktv |-> ktv, key |-> kt[1].key]
evict(kt, ktv) ==
    [kt  |-> Tail(kt),
     ktv |-> [x \in DOMAIN ktv \ {find(ktv, kt[1].key)} |-> ktv[x]],
     key |-> kt[1].key]

\* insert(), lines 152-163: append a node for k, and insert the map entry
\* linked to it (std::map::insert leaves an existing entry alone).
recordPosHandle(kt, ktv, k, v) ==
    LET n == NewNode(kt)
    IN  [kt  |-> Append(kt, [node |-> n, key |-> k]),
         ktv |-> IF k \in DOMAIN ktv THEN ktv
                 ELSE [x \in DOMAIN ktv \cup {k} |->
                          IF x = k THEN [first |-> v, second |-> Len(kt) + 1]
                          ELSE ktv[x]]]
record(kt, ktv, k, v) ==
    LET n == NewNode(kt)
    IN  [kt  |-> Append(kt, [node |-> n, key |-> k]),
         ktv |-> IF k \in DOMAIN ktv THEN ktv
                 ELSE [x \in DOMAIN ktv \cup {k} |->
                          IF x = k THEN [first |-> v, second |-> n] ELSE ktv[x]]]

\* insert(k, v): make space if necessary, then record k as most recent.
insertNoEvict(kt, ktv, cap, k, v) ==
    record(kt, ktv, k, v) @@ [evicted |-> NoKey]
insertAlwaysEvict(kt, ktv, cap, k, v) ==
    IF kt # <<>>
    THEN LET e == evict(kt, ktv)
         IN  record(e.kt, e.ktv, k, v) @@ [evicted |-> e.key]
    ELSE record(kt, ktv, k, v) @@ [evicted |-> NoKey]
insertOffByOne(kt, ktv, cap, k, v) ==
    IF size(ktv) > cap
    THEN LET e == evict(kt, ktv)
         IN  record(e.kt, e.ktv, k, v) @@ [evicted |-> e.key]
    ELSE record(kt, ktv, k, v) @@ [evicted |-> NoKey]
insert(kt, ktv, cap, k, v) ==
    IF size(ktv) = cap
    THEN LET e == evict(kt, ktv)
         IN  record(e.kt, e.ktv, k, v) @@ [evicted |-> e.key]
    ELSE record(kt, ktv, k, v) @@ [evicted |-> NoKey]

\* ------------------------------------------------------------- operator[]
\* What one call of operator[](k) does to the two containers, and what it
\* returns.  throws: the call of _fn(k) raises instead of returning.
\* kind is "hit", "miss" or "throw"; ncalls counts the calls of _fn.
CallResult(kt, ktv, kind, ret, ncalls, evicted) ==
    [kt |-> kt, ktv |-> ktv, kind |-> kind, ret |-> ret,
     ncalls |-> ncalls, evicted |-> evicted]

\* (variants of operator[] with a defect, used to test the properties)
\* makes space before it evaluates the function
getEvictFirst(kt, ktv, cap, fn, k, throws) ==
    LET it == find(ktv, k)
    IN  IF it = End
        THEN LET e == IF size(ktv) = cap /\ kt # <<>> THEN evict(kt, ktv)
                      ELSE [kt |-> kt, ktv |-> ktv, key |-> NoKey]
             IN  IF throws
                 THEN CallResult(e.kt, e.ktv, "throw", NoValue, 1, e.key)
                 ELSE LET r == record(e.kt, e.ktv, k, fn[k])
                      IN  CallResult(r.kt, r.ktv, "miss", r.ktv[k].first, 1, e.key)
        ELSE CallResult(splice(kt, ktv[it].second), ktv, "hit",
                        ktv[it].first, 0, NoKey)
\* creates the record before it evaluates the function
getPoison(kt, ktv, cap, fn, k, throws) ==
    LET it == find(ktv, k)
    IN  IF it = End
        THEN LET r == insert(kt, ktv, cap, k, IF throws THEN NoValue ELSE fn[k])
             IN  CallResult(r.kt, r.ktv, IF throws THEN "throw" ELSE "miss",
                            IF throws THEN NoValue ELSE r.ktv[k].first,
                            1, r.evicted)
        ELSE CallResult(splice(kt, ktv[it].second), ktv, "hit",
                        ktv[it].first, 0, NoKey)
\* returns the value of the least recently used record on a hit
getHitFront(kt, ktv, cap, fn, k, throws) ==
    LET it == find(ktv, k)
    IN  IF it = End
        THEN IF throws
             THEN CallResult(kt, ktv, "throw", NoValue, 1, NoKey)
             ELSE LET r == insert(kt, ktv, cap, k, fn[k])
                  IN  CallResult(r.kt, r.ktv, "miss", r.ktv[k].first, 1, r.evicted)
        ELSE CallResult(splice(kt, ktv[it].second), ktv, "hit",
                        ktv[kt[1].key].first, 0, NoKey)

get(kt, ktv, cap, fn, k, throws) ==
    LET it == find(ktv, k)
    IN  IF it = End
        THEN IF throws
             THEN CallResult(kt, ktv, "throw", NoValue, 1, NoKey)
             ELSE LET v == fn[k]
                      r == insert(kt, ktv, cap, k, v)
                  IN  CallResult(r.kt, r.ktv, "miss", r.ktv[k].first, 1, r.evicted)
        ELSE CallResult(splice(kt, ktv[it].second), ktv, "hit",
                        ktv[it].first, 0, NoKey)

\* The record of a call; retry: the call before it was operator[] with the
\* same key and its function call raised.
CallRecord(op, k, r) ==
    [op |-> op, key |-> k, kind |-> r.kind, ret |-> r.ret,
     ncalls |-> r.ncalls, evicted |-> r.evicted,
     retry |-> lastCall.kind = "throw" /\ lastCall.key = k]

NoCall == [op |-> "none", key |-> NoKey, kind |-> "none", ret |-> NoValue,
           ncalls |-> 0, evicted |-> NoKey, retry |-> FALSE]

\* -------------------------------------------------------------- assertions
\* The conditions the code asserts, as predicates of the containers.
\* insert(): assert(_key_to_value.find(k) == _key_to_value.end())
AssertInsert(ktv, k) == find(ktv, k) = End
\* evict(): assert(!_key_tracker.empty())
AssertEvictNonEmpty(kt) == kt # <<>>
\* evict() and front(): assert(it != _key_to_value.end())
AssertFrontFound(kt, ktv) == find(ktv, kt[1].key) # End

\* ---------------------------------------------------------- introspection
\* get_keys(dst): the keys written to dst, from rbegin() to rend().
get_keysForward(kt) == [i \in 1..Len(kt) |-> kt[i].key]
get_keys(kt) == [i \in 1..Len(kt) |-> kt[Len(kt) + 1 - i].key]

\* begin(): the first entry of the map (std::map: the least key), or end().
begin(ktv) ==
    IF DOMAIN ktv = {} THEN End
    ELSE CHOOSE k \in DOMAIN ktv : \A x \in DOMAIN ktv : k <= x

IntrospectOps == {"size", "capacity", "empty", "full", "find", "front",
                  "begin", "end", "get_keys"}

ReadResult(kt, ktv, ret) == [kt |-> kt, ktv |-> ktv, ret |-> ret]

\* What a call of the read-only method op does to the containers, and what
\* it returns (k is the argument of find).
introspectPromotes(kt, ktv, cap, op, k) ==
    IF op = "find" /\ k \in DOMAIN ktv
    THEN ReadResult(splice(kt, ktv[k].second), ktv, find(ktv, k))
    ELSE ReadResult(kt, ktv, 0)
introspect(kt, ktv, cap, op, k) ==
    ReadResult(kt, ktv,
        CASE op = "size"     -> size(ktv)
          [] op = "capacity" -> cap
          [] op = "empty"    -> empty(ktv)
          [] op = "full"     -> full(ktv, cap)
          [] op = "find"     -> find(ktv, k)
          [] op = "front"    -> front(kt, ktv)
          [] op = "begin"    -> begin(ktv)
          [] op = "end"      -> End
          [] op = "get_keys" -> get_keys(kt))

\* insert() would call evict() on an empty list: only with _capacity = 0.
EvictsEmpty(k) ==
    /\ find(_key_to_value, k) = End
    /\ size(_key_to_value) = _capacity
    /\ _key_tracker = <<>>

\* The callers of the concurrent specification, and a caller that is not
\* inside operator[].
Callers == {1, 2}
Idle == [pc |-> "idle", key |-> NoKey, val |-> NoValue]

\* ---------------------------------------------------------------- actions
Init ==
    /\ ndebug \in BOOLEAN
    /\ status = "unconstructed"
    /\ _fn = <<>>
    /\ _capacity = 0
    /\ _key_tracker = <<>>
    /\ _key_to_value = <<>>
    /\ requested = <<>>
    /\ evictions = <<>>
    /\ lastCall = NoCall
    /\ callers = [t \in Callers |-> Idle]

\* lru_cache_using_std(f, c): assert(_capacity != 0) aborts the program,
\* unless the build defines NDEBUG.
Construct ==
    /\ status = "unconstructed"
    /\ \E f \in Fns, c \in 0..MaxCap :
          IF c = 0 /\ ~ndebug
          THEN /\ status' = "aborted"
               /\ UNCHANGED <<_fn, _capacity>>
          ELSE /\ status' = "live"
               /\ _fn' = f
               /\ _capacity' = c
    /\ UNCHANGED <<ndebug, _key_tracker, _key_to_value, requested, evictions,
                   lastCall, callers>>

\* operator[](k), every case but the one of GetEvictsEmpty.
Get ==
    /\ status = "live"
    /\ Len(requested) < MaxOps
    /\ \E k \in Keys, throws \in BOOLEAN :
          /\ throws \/ ~EvictsEmpty(k)
          /\ LET r == get(_key_tracker, _key_to_value, _capacity, _fn, k, throws)
             IN  /\ _key_tracker' = r.kt
                 /\ _key_to_value' = r.ktv
                 /\ lastCall' = CallRecord("get", k, r)
                 /\ requested' = IF r.kind = "throw" THEN requested
                                 ELSE Append(requested, k)
                 /\ evictions' = IF r.evicted = NoKey THEN evictions
                                 ELSE Append(evictions, r.evicted)
    /\ UNCHANGED <<ndebug, status, _fn, _capacity, callers>>

\* operator[](k) on a miss whose insert() calls evict() on an empty list.
\* assert(!_key_tracker.empty()) aborts; with NDEBUG, front(), erase() and
\* pop_front() on empty containers are undefined: the program crashes, or
\* goes on as if evict() had done nothing.
GetEvictsEmpty ==
    /\ status = "live"
    /\ Len(requested) < MaxOps
    /\ \E k \in Keys, outcome \in {"crash", "goes on"} :
          /\ EvictsEmpty(k)
          /\ IF ~ndebug \/ outcome = "crash"
             THEN /\ status' = "aborted"
                  /\ lastCall' = [NoCall EXCEPT !.op = "get", !.key = k,
                                                !.kind = "abort", !.ncalls = 1]
                  /\ UNCHANGED <<_key_tracker, _key_to_value, requested>>
             ELSE LET r == record(_key_tracker, _key_to_value, k, _fn[k])
                  IN  /\ status' = status
                      /\ _key_tracker' = r.kt
                      /\ _key_to_value' = r.ktv
                      /\ lastCall' = [NoCall EXCEPT !.op = "get", !.key = k,
                                        !.kind = "miss", !.ret = r.ktv[k].first,
                                        !.ncalls = 1, !.retry = (lastCall.kind = "throw" /\ lastCall.key = k)]
                      /\ requested' = Append(requested, k)
    /\ UNCHANGED <<ndebug, _fn, _capacity, evictions, callers>>

\* size(), capacity(), empty(), full(), find(k), front(), begin(), end(),
\* get_keys(dst).  front() asserts that the front key has a map entry.
Introspect ==
    /\ status = "live"
    /\ Len(requested) < MaxOps
    /\ \E op \in IntrospectOps :
       \E k \in (IF op = "find" THEN Keys ELSE {NoKey}) :
          LET r == introspect(_key_tracker, _key_to_value, _capacity, op, k)
          IN  /\ _key_tracker' = r.kt
              /\ _key_to_value' = r.ktv
              /\ lastCall' = [NoCall EXCEPT !.op = op, !.key = k,
                                            !.kind = "read", !.ret = r.ret]
              /\ status' = IF /\ op = "front" /\ ~ndebug
                              /\ _key_tracker # <<>> /\ r.ret = End
                           THEN "aborted" ELSE status
    /\ UNCHANGED <<ndebug, _fn, _capacity, requested, evictions, callers>>

Next == Construct \/ Get \/ GetEvictsEmpty \/ Introspect

Spec == Init /\ [][Next]_vars

\* ------------------------------------------------------ concurrent callers
\* Two callers run operator[] under one mutex that is released while _fn
\* runs.  operator[] is then three steps: the lookup with the hit branch
\* (lines 57-60, 72-86), the call of _fn (line 65), and insert() with the
\* return (lines 66-69); the first and the last are atomic under the mutex.
InFlight == {t \in Callers : callers[t].pc # "idle"}

Lookup(t) ==
    /\ status = "live"
    /\ callers[t].pc = "idle"
    /\ Len(requested) + Cardinality(InFlight) < MaxOps
    /\ \E k \in Keys :
          LET it == find(_key_to_value, k)
          IN  IF it = End
              THEN /\ callers' = [callers EXCEPT ![t] =
                                    [pc |-> "calling", key |-> k, val |-> NoValue]]
                   /\ UNCHANGED <<_key_tracker, requested, lastCall>>
              ELSE /\ _key_tracker' = splice(_key_tracker, _key_to_value[it].second)
                   /\ requested' = Append(requested, k)
                   /\ lastCall' = [NoCall EXCEPT !.op = "get", !.key = k,
                                     !.kind = "hit", !.ret = _key_to_value[it].first]
                   /\ UNCHANGED callers
    /\ UNCHANGED <<ndebug, status, _fn, _capacity, _key_to_value, evictions>>

CallFunction(t) ==
    /\ status = "live"
    /\ callers[t].pc = "calling"
    /\ \E throws \in BOOLEAN :
          IF throws
          THEN /\ callers' = [callers EXCEPT ![t] = Idle]
               /\ lastCall' = [NoCall EXCEPT !.op = "get", !.key = callers[t].key,
                                             !.kind = "throw", !.ncalls = 1]
          ELSE /\ callers' = [callers EXCEPT ![t] =
                                [pc |-> "inserting", key |-> callers[t].key,
                                 val |-> _fn[callers[t].key]]]
               /\ UNCHANGED lastCall
    /\ UNCHANGED <<ndebug, status, _fn, _capacity, _key_tracker, _key_to_value,
                   requested, evictions>>

\* insert(k, v) and the return.  A failed assert aborts; with NDEBUG a key
\* that is already in the map gets a second list node and no new entry,
\* and evict() on an empty list or on a front key that is not in the map
\* is undefined: the program crashes, or goes on with the erase left out.
InsertStep(t) ==
    /\ status = "live"
    /\ callers[t].pc = "inserting"
    /\ LET k == callers[t].key
           v == callers[t].val
           evicts == size(_key_to_value) = _capacity
           undefined ==
               evicts /\ (\/ ~AssertEvictNonEmpty(_key_tracker)
                          \/ ~AssertFrontFound(_key_tracker, _key_to_value))
           failed == ~AssertInsert(_key_to_value, k) \/ undefined
       IN  \E outcome \in {"crash", "goes on"} :
             IF (failed /\ ~ndebug) \/ (undefined /\ outcome = "crash")
             THEN /\ status' = "aborted"
                  /\ lastCall' = [NoCall EXCEPT !.op = "get", !.key = k,
                                                !.kind = "abort", !.ncalls = 1]
                  /\ UNCHANGED <<_key_tracker, _key_to_value, requested,
                                 evictions>>
             ELSE LET r == IF evicts /\ _key_tracker = <<>>
                           THEN record(_key_tracker, _key_to_value, k, v)
                                   @@ [evicted |-> NoKey]
                           ELSE insert(_key_tracker, _key_to_value, _capacity, k, v)
                  IN  /\ status' = status
                      /\ _key_tracker' = r.kt
                      /\ _key_to_value' = r.ktv
                      /\ lastCall' = [NoCall EXCEPT !.op = "get", !.key = k,
                                        !.kind = "miss", !.ret = r.ktv[k].first,
                                        !.ncalls = 1, !.evicted = r.evicted]
                      /\ requested' = Append(requested, k)
                      /\ evictions' = IF r.evicted = NoKey THEN evictions
                                      ELSE Append(evictions, r.evicted)
    /\ callers' = [callers EXCEPT ![t] = Idle]
    /\ UNCHANGED <<ndebug, _fn, _capacity>>

NextConc ==
    \/ Construct
    \/ \E t \in Callers : Lookup(t) \/ CallFunction(t) \/ InsertStep(t)

SpecConc == Init /\ [][NextConc]_vars

\* -------------------------------------------------------------- properties
\* A cache that was constructed with a capacity c > 0.
Valid == status = "live" /\ _capacity > 0
Cache == <<_fn, _capacity, _key_tracker, _key_to_value>>
Order == KeySeq(_key_tracker)
Resident == DOMAIN _key_to_value
Returned == lastCall.op = "get" /\ lastCall.kind \in {"hit", "miss"}

\* C1: with capacity c > 0, after every operator[] call size() <= capacity()
\* and the access-order list is as long as the index has entries.
C1_CapacityBound ==
    Valid => /\ size(_key_to_value) <= capacity
             /\ Len(_key_tracker) = size(_key_to_value)
C1_Witness ==
    /\ Valid
    /\ Returned /\ lastCall.evicted # NoKey
    /\ size(_key_to_value) = capacity
    /\ capacity = MaxCap

\* C2: in every state reached by operator[] calls the keys of the index are
\* the keys of the access-order list, and the list holds no key twice.
C2_Bijection ==
    Valid => /\ Resident = KeysOf(_key_tracker)
             /\ NoDup(Order)
C2_Witness ==
    /\ Valid
    /\ Len(evictions) >= 2
    /\ lastCall.kind = "hit"
    /\ Resident = KeysOf(_key_tracker)

\* C3: after operator[] on N > c pairwise distinct keys k1..kN, from the
\* empty cache, the cache holds exactly the last c of them and the evicted
\* keys are k1..k(N-c), in that order.
C3_LruCorrectness ==
    LET N == Len(requested)
        c == capacity
    IN  (Valid /\ NoDup(requested) /\ N > c) =>
            /\ Resident = {requested[i] : i \in (N - c + 1)..N}
            /\ Order = SubSeq(requested, N - c + 1, N)
            /\ evictions = SubSeq(requested, 1, N - c)
C3_Witness ==
    /\ Valid
    /\ capacity = 2
    /\ NoDup(requested) /\ Len(requested) = 4
    /\ evictions = SubSeq(requested, 1, 2)

\* C4: a hit refreshes the key.  With capacity 2, after A, B, A, C the cache
\* holds {A, C} and B was evicted; with capacity >= 2 the key operator[]
\* returned last is never the key the next miss evicts.
C4_Scenario ==
    (/\ Valid /\ capacity = 2
     /\ Len(requested) = 4
     /\ requested[3] = requested[1]
     /\ Cardinality({requested[1], requested[2], requested[4]}) = 3)
    => /\ Resident = {requested[1], requested[4]}
       /\ evictions = <<requested[2]>>
C4_NextMiss ==
    (/\ Valid /\ capacity >= 2
     /\ requested # <<>>
     /\ Len(evictions') > Len(evictions))
    => Last(evictions') # Last(requested)
C4_PromotionOnHit == []C4_Scenario /\ [][C4_NextMiss]_vars
C4_Witness ==
    /\ Valid /\ capacity = 2
    /\ Len(requested) = 4
    /\ requested[3] = requested[1]
    /\ Cardinality({requested[1], requested[2], requested[4]}) = 3
    /\ evictions = <<requested[2]>>

\* C5: operator[](k) calls the function once when k is not resident and
\* never when k is resident (from the miss that inserted k to its eviction).
C5_Step ==
    Valid => LET k == lastCall'.key
             IN  lastCall'.op = "get" =>
                     lastCall'.ncalls = IF k \in Resident THEN 0 ELSE 1
C5_OneComputation == [][C5_Step]_vars
C5_Witness ==
    /\ Valid
    /\ lastCall.kind = "hit" /\ lastCall.ncalls = 0
    /\ Len(SelectSeq(requested, LAMBDA x : x = lastCall.key)) >= 3
    /\ evictions = <<>>

\* C6: when the function fails on a miss the cache is left as it was: same
\* index, same access order, same size, nothing evicted, full cache or not.
C6_Step ==
    (Valid /\ lastCall'.kind = "throw") =>
        /\ _key_tracker' = _key_tracker
        /\ _key_to_value' = _key_to_value
        /\ size(_key_to_value') = size(_key_to_value)
        /\ evictions' = evictions
        /\ lastCall'.evicted = NoKey
C6_FailureRollback == [][C6_Step]_vars
C6_Witness ==
    /\ Valid
    /\ lastCall.kind = "throw"
    /\ full(_key_to_value, capacity)
    /\ lastCall.key \notin Resident

\* C7: after the function failed for k, k is not resident and size() is as
\* before; the next operator[](k) is a miss again that calls the function.
C7_Step ==
    (Valid /\ lastCall'.kind = "throw") =>
        /\ lastCall'.key \notin DOMAIN _key_to_value'
        /\ size(_key_to_value') = size(_key_to_value)
C7_Retry ==
    (Valid /\ lastCall.retry) =>
        /\ lastCall.kind \in {"miss", "throw"}
        /\ lastCall.ncalls = 1
C7_FailureNonCorruption == []C7_Retry /\ [][C7_Step]_vars
C7_Witness ==
    /\ Valid
    /\ lastCall.retry
    /\ lastCall.kind = "miss"
    /\ lastCall.key \in Resident

\* C8: every operator[](k) that returns, returns f(k) (hit, miss, miss with
\* eviction), and the value stored for a key does not change while the key
\* is resident.
C8_Values ==
    Valid => /\ \A k \in Resident : _key_to_value[k].first = _fn[k]
             /\ Returned => lastCall.ret = _fn[lastCall.key]
C8_Step ==
    Valid => \A k \in Resident \cap DOMAIN _key_to_value' :
                 _key_to_value'[k].first = _key_to_value[k].first
C8_Transparent == []C8_Values /\ [][C8_Step]_vars
C8_Witness ==
    /\ Valid
    /\ _fn = square
    /\ lastCall.kind = "hit"
    /\ lastCall.ret = lastCall.key * lastCall.key
    /\ lastCall.key # _key_tracker[1].key
    /\ evictions # <<>>

\* C9: capacity 2, square: get(2), get(3), get(2), get(4) return 4, 9, 4, 16
\* as miss, miss, hit, miss, with access orders [2], [2,3], [3,2], [2,4];
\* only key 3 is evicted (fourth call); at the end {2,4} are resident and the
\* least recently used key is 2.
Scenario9 == <<2, 3, 2, 4>>
Expected9 ==
    <<[order |-> <<2>>,    ret |-> 4,  kind |-> "miss", evicted |-> NoKey],
      [order |-> <<2, 3>>, ret |-> 9,  kind |-> "miss", evicted |-> NoKey],
      [order |-> <<3, 2>>, ret |-> 4,  kind |-> "hit",  evicted |-> NoKey],
      [order |-> <<2, 4>>, ret |-> 16, kind |-> "miss", evicted |-> 3]>>
C9_Example ==
    LET n == Len(requested)
    IN  (/\ Valid /\ capacity = 2 /\ _fn = square
         /\ n \in 1..4 /\ requested = SubSeq(Scenario9, 1, n))
        => /\ Order = Expected9[n].order
           /\ evictions = IF n = 4 THEN <<3>> ELSE <<>>
           /\ Returned => /\ lastCall.ret = Expected9[n].ret
                          /\ lastCall.kind = Expected9[n].kind
                          /\ lastCall.evicted = Expected9[n].evicted
           /\ n = 4 => /\ Resident = {2, 4}
                       /\ front(_key_tracker, _key_to_value) = 2
C9_Witness ==
    /\ Valid /\ capacity = 2 /\ _fn = square
    /\ requested = Scenario9
    /\ Returned /\ lastCall.ret = 16
    /\ Order = <<2, 4>>

\* C10: construction with capacity 0 is refused, so that no cache with
\* capacity() = 0 exists on which an operation can be called.
C10_ZeroCapacityRefused == status = "live" => capacity # 0

\* C11: size(), capacity(), empty(), full(), find(k), front(), begin(), end()
\* and get_keys() leave access order, index and capacity as they were and do
\* not call the function; find(k) does not promote k, so the next miss evicts
\* the key it would have evicted without the find.
C11_Step ==
    (Valid /\ lastCall'.op \in IntrospectOps) =>
        /\ Cache' = Cache
        /\ lastCall'.ncalls = 0
        /\ requested' = requested /\ evictions' = evictions
        /\ front(_key_tracker', _key_to_value') = front(_key_tracker, _key_to_value)
C11_ReadOnly == [][C11_Step]_vars
C11_Witness ==
    /\ Valid
    /\ lastCall.op = "find"
    /\ lastCall.ret = lastCall.key
    /\ Len(_key_tracker) >= 2
    /\ lastCall.key = _key_tracker[1].key

\* The position in requested of the last operator[] call that returned k.
LastGet(k) ==
    LET I == {i \in 1..Len(requested) : requested[i] = k}
    IN  IF I = {} THEN 0 ELSE CHOOSE i \in I : \A j \in I : j <= i

\* C12: front() returns the index entry of the key at the front of the
\* access order, the resident key whose last operator[] is oldest, and
\* removes nothing; on the empty cache it returns end().  In a non-empty
\* cache the front key is always found in the index.
C12_Front ==
    LET f == front(_key_tracker, _key_to_value)
    IN  Valid =>
          /\ _key_tracker = <<>> => f = End
          /\ _key_tracker # <<>> =>
                /\ f # End
                /\ f = _key_tracker[1].key
                /\ f \in Resident
                /\ \A k \in Resident : LastGet(f) <= LastGet(k)
          /\ lastCall.op = "front" =>
                /\ lastCall.ret = f
                /\ f # End => f \in KeysOf(_key_tracker)
C12_Witness ==
    /\ Valid
    /\ lastCall.op = "front"
    /\ lastCall.ret # End
    /\ lastCall.ret = _key_tracker[1].key
    /\ Len(_key_tracker) >= 2
    /\ \E i \in 1..Len(requested) : i < LastGet(lastCall.ret) /\ requested[i] = lastCall.ret

\* C13: get_keys writes every resident key once, most recently used first:
\* the reverse of the access order.  Its first key is the key of the latest
\* operator[] that returned, its last key is the one front() reports, and a
\* second call with no operator[] in between writes the same sequence.
C13_GetKeys ==
    LET ks == get_keys(_key_tracker)
        n  == Len(ks)
    IN  Valid =>
          /\ NoDup(ks)
          /\ SeqToSet(ks) = Resident
          /\ n = size(_key_to_value)
          /\ \A i \in 1..n : ks[i] = _key_tracker[n + 1 - i].key
          /\ \A i, j \in 1..n : i < j => LastGet(ks[i]) > LastGet(ks[j])
          /\ n > 0 => /\ ks[1] = Last(requested)
                      /\ ks[n] = front(_key_tracker, _key_to_value)
          /\ lastCall.op = "get_keys" => lastCall.ret = ks
C13_Witness ==
    /\ Valid
    /\ lastCall.op = "get_keys"
    /\ Len(lastCall.ret) >= 2
    /\ lastCall.ret[1] = Last(requested)
    /\ evictions # <<>>
    /\ lastCall.ret[2] # evictions[1]

Without(seq, k) == SelectSeq(seq, LAMBDA x : x # k)

\* C14: an eviction happens only in an operator[] that misses while
\* size() = capacity(), once, and removes the front key of the access order
\* from list and index; the other resident keys keep value and relative
\* position.  A miss below capacity and a hit remove no key.
C14_Step ==
    LET removed == Resident \ DOMAIN _key_to_value'
        k       == lastCall'.key
        lru     == _key_tracker[1].key
    IN  Valid =>
          /\ Cardinality(removed) <= 1
          /\ Len(evictions') <= Len(evictions) + 1
          /\ (removed # {}) <=> (evictions' # evictions)
          /\ removed # {} =>
                /\ lastCall'.op = "get" /\ lastCall'.kind = "miss"
                /\ size(_key_to_value) = capacity
                /\ removed = {lru}
                /\ lastCall'.evicted = lru
                /\ evictions' = Append(evictions, lru)
                /\ lru \notin KeysOf(_key_tracker')
                /\ Without(KeySeq(_key_tracker'), k) = Tail(Order)
                /\ \A x \in Resident \ removed :
                      _key_to_value'[x].first = _key_to_value[x].first
          /\ (/\ lastCall'.op = "get" /\ lastCall'.kind = "miss"
              /\ size(_key_to_value) < capacity) =>
                /\ removed = {}
                /\ Without(KeySeq(_key_tracker'), k) = Order
          /\ (lastCall'.op = "get" /\ lastCall'.kind = "hit") =>
                /\ removed = {}
                /\ KeysOf(_key_tracker') = KeysOf(_key_tracker)
C14_EvictionFrame == [][C14_Step]_vars
C14_Witness ==
    /\ Valid
    /\ capacity = 3
    /\ lastCall.op = "get" /\ lastCall.kind = "miss"
    /\ lastCall.evicted # NoKey
    /\ lastCall.evicted \notin Resident
    /\ evictions = <<lastCall.evicted>>
    /\ Len(_key_tracker) = 3

\* C15: after every operator[](k) that returns, k is resident and is the
\* last element of the access order.  A hit changes nothing else: resident
\* keys, stored values and size() stay, and so does the relative order of
\* the other keys.
C15_MostRecent ==
    (Valid /\ requested # <<>>) =>
        /\ Last(requested) \in Resident
        /\ Last(Order) = Last(requested)
        /\ Returned => lastCall.key = Last(Order)
C15_HitStep ==
    (Valid /\ lastCall'.op = "get" /\ lastCall'.kind = "hit") =>
        LET k == lastCall'.key
        IN  /\ DOMAIN _key_to_value' = Resident
            /\ \A x \in Resident :
                  _key_to_value'[x].first = _key_to_value[x].first
            /\ size(_key_to_value') = size(_key_to_value)
            /\ Without(KeySeq(_key_tracker'), k) = Without(Order, k)
            /\ KeySeq(_key_tracker') = Append(Without(Order, k), k)
            /\ evictions' = evictions
C15_AccessFrame == []C15_MostRecent /\ [][C15_HitStep]_vars
C15_Witness ==
    /\ Valid
    /\ lastCall.op = "get" /\ lastCall.kind = "hit"
    /\ Len(_key_tracker) >= 3
    /\ Last(Order) = lastCall.key
    /\ Len(requested) >= 2
    /\ requested[Len(requested) - 1] # lastCall.key

\* C16: handles are never stale.  The handle of every index entry k refers
\* to one node of the access-order list, and that node holds k; no two
\* entries share a handle; a hit and the eviction of another key leave the
\* handle of every other entry on its own node.
NodeAt(kt, h) == {i \in 1..Len(kt) : kt[i].node = h}
C16_Handles ==
    Valid =>
        /\ \A k \in Resident :
              /\ Cardinality(NodeAt(_key_tracker, _key_to_value[k].second)) = 1
              /\ \A i \in NodeAt(_key_tracker, _key_to_value[k].second) :
                    _key_tracker[i].key = k
        /\ \A k1, k2 \in Resident :
              _key_to_value[k1].second = _key_to_value[k2].second => k1 = k2
C16_Step ==
    Valid => \A k \in Resident \cap DOMAIN _key_to_value' :
                /\ _key_to_value'[k].second = _key_to_value[k].second
                /\ \A i \in NodeAt(_key_tracker', _key_to_value[k].second) :
                      _key_tracker'[i].key = k
C16_HandlesNeverStale == []C16_Handles /\ [][C16_Step]_vars
C16_Witness ==
    /\ Valid
    /\ lastCall.op = "get" /\ lastCall.kind = "hit"
    /\ evictions # <<>>
    /\ Len(_key_tracker) >= 2
    /\ \E i \in 1..Len(_key_tracker) : _key_tracker[i].node # i
    /\ \A k \in Resident :
          \E i \in 1..Len(_key_tracker) :
             _key_tracker[i] = [node |-> _key_to_value[k].second, key |-> k]

\* C17: with capacity > 0, one caller and a function that does not call
\* the cache, no assertion fails: insert() is entered with an absent key,
\* evict() with a non-empty list, and the front key of the list is found in
\* the index, in evict() and in front().
C17_Asserts ==
    Valid =>
        /\ \A k \in Keys :
              find(_key_to_value, k) = End =>
                 /\ AssertInsert(_key_to_value, k)
                 /\ size(_key_to_value) = _capacity =>
                       /\ AssertEvictNonEmpty(_key_tracker)
                       /\ AssertFrontFound(_key_tracker, _key_to_value)
        /\ _key_tracker # <<>> => AssertFrontFound(_key_tracker, _key_to_value)
C17_NoAbort == Valid => status' = "live"
C17_NoAssertionFails == []C17_Asserts /\ [][C17_NoAbort]_vars
C17_Witness ==
    /\ Valid
    /\ Len(evictions) >= 2
    /\ lastCall.op = "front"
    /\ lastCall.ret # End
    /\ full(_key_to_value, capacity)

\* The reference LRU model: the distinct keys of req in the order of their
\* last request, cut to the cap most recent ones.
RECURSIVE ByLastRequest(_)
ByLastRequest(req) ==
    IF req = <<>> THEN <<>>
    ELSE IF Head(req) \in SeqToSet(Tail(req))
         THEN ByLastRequest(Tail(req))
         ELSE <<Head(req)>> \o ByLastRequest(Tail(req))
Min(a, b) == IF a <= b THEN a ELSE b
RefLRU(req, cap) ==
    LET d == ByLastRequest(req)
        n == Len(d)
    IN  SubSeq(d, n - Min(cap, n) + 1, n)
\* The keys other than k requested after the last operator[](k).
OthersSince(k) ==
    {requested[i] : i \in (LastGet(k) + 1)..Len(requested)} \ {k}

\* C18: the cache refines the reference LRU model.  After any sequence of
\* operator[] calls that returned, the access order is the distinct keys
\* requested, by the time of their last request, cut to the min(capacity,
\* number of distinct keys) most recent; k is resident exactly when fewer
\* than capacity distinct other keys were requested since the last get(k).
C18_RefinesLRU ==
    Valid =>
        /\ Order = RefLRU(requested, capacity)
        /\ Len(Order) = Min(capacity, Cardinality(SeqToSet(requested)))
        /\ \A k \in Keys :
              k \in Resident <=>
                 (LastGet(k) > 0 /\ Cardinality(OthersSince(k)) < capacity)
C18_Witness ==
    /\ Valid
    /\ capacity >= 2
    /\ evictions # <<>>
    /\ ~NoDup(requested)
    /\ Order = RefLRU(requested, capacity)
    /\ evictions[1] # requested[1]

\* C19: size() never decreases, failed calls included: a miss below
\* capacity raises it by 1; a hit, a failed miss and a miss at capacity
\* leave it.  Once full() it stays full(); empty() holds only before the
\* first operator[] that returns; size() is min(capacity, number of
\* distinct keys requested with success).
C19_Size ==
    Valid =>
        /\ size(_key_to_value) = Min(capacity, Cardinality(SeqToSet(requested)))
        /\ empty(_key_to_value) <=> requested = <<>>
C19_Step ==
    LET n == size(_key_to_value)
        m == size(_key_to_value')
    IN  Valid =>
          /\ m >= n
          /\ full(_key_to_value, capacity) => full(_key_to_value', capacity)
          /\ lastCall'.op = "get" =>
                /\ (lastCall'.kind = "miss" /\ n < capacity) => m = n + 1
                /\ (lastCall'.kind = "miss" /\ n = capacity) => m = n
                /\ lastCall'.kind \in {"hit", "throw"} => m = n
                /\ lastCall'.kind \in {"hit", "miss", "throw"}
          /\ lastCall'.op # "get" => m = n
C19_SizeMonotone == []C19_Size /\ [][C19_Step]_vars
C19_Witness ==
    /\ Valid
    /\ capacity >= 2
    /\ lastCall.op = "get" /\ lastCall.kind = "throw"
    /\ full(_key_to_value, capacity)
    /\ evictions # <<>>

\* C20: two callers run operator[] under a mutex that is released around
\* the function call.  The claim: the index keys equal the access-order
\* keys, the access order has no duplicate key, size() <= capacity(), and
\* insert() is never entered for a key that is already in the index.
C20_State ==
    Valid =>
        /\ Resident = KeysOf(_key_tracker)
        /\ NoDup(Order)
        /\ size(_key_to_value) <= capacity
C20_EntersInsert ==
    Valid => \A t \in Callers :
                (callers[t].pc = "inserting" /\ callers'[t].pc # "inserting")
                   => AssertInsert(_key_to_value, callers[t].key)
C20_ConcurrentSafe == []C20_State /\ [][C20_EntersInsert]_vars
====
